---- MODULE Spec2Model ----
\* Model of linux-media: the two-phase MEDIA_IOC_G_TOPOLOGY protocol driven by
\* MediaTopologyBuilder::from_fd and MediaTopology::from_fd, the raw-record
\* decoders, the error classification of the ioctl! macro, and the
\* MediaEntityIter cursor over MEDIA_IOC_ENUM_ENTITIES.
EXTENDS Integers, Sequences, FiniteSets, TLC

\* ---------------------------------------------------------------- bounds
MaxVer == 3

\* ---------------------------------------------------------------- errno / kernel constants
EBUSY == 16
ENOTTY == 25
EINVAL == 22
ENOSPC == 28
EIO == 5
EFAULT == 14

MEDIA_PAD_FL_SINK == 1
MEDIA_PAD_FL_SOURCE == 2
MEDIA_PAD_FL_MUST_CONNECT == 4

MEDIA_ENT_FL_DEFAULT == 1
MEDIA_ENT_FL_CONNECTOR == 2

MEDIA_ENT_F_UNKNOWN == 0
MEDIA_ENT_F_IO_V4L == 65537
MEDIA_ENT_F_CAM_SENSOR == 131073

MEDIA_INTF_T_DVB_FE == 256
MEDIA_INTF_T_V4L_VIDEO == 512
MEDIA_INTF_T_V4L_SUBDEV == 515

\* link type discriminant lives in bits 28..31 (MEDIA_LNK_FL_LINK_TYPE)
LinkTypeUnit == 2^28
MEDIA_LNK_FL_DATA_LINK == 0
MEDIA_LNK_FL_INTERFACE_LINK == LinkTypeUnit
MEDIA_LNK_FL_ANCILLARY_LINK == 2 * LinkTypeUnit
MEDIA_LNK_FL_ENABLED == 1
MEDIA_LNK_FL_IMMUTABLE == 2
MEDIA_LNK_FL_DYNAMIC == 4

\* MEDIA_V2_ENTITY_HAS_FLAGS / MEDIA_V2_PAD_HAS_INDEX: media_version >= KERNEL_VERSION(4, 19, 0)
MEDIA_V2_ENTITY_HAS_FLAGS(v) == v >= 4 * 65536 + 19 * 256
MEDIA_V2_PAD_HAS_INDEX(v) == v >= 4 * 65536 + 19 * 256

\* media_version values a MediaDeviceInfo may carry (KERNEL_VERSION(4,18,0), KERNEL_VERSION(6,1,0))
MediaVersions == {4 * 65536 + 18 * 256, 6 * 65536 + 1 * 256}

Bit(v, b) == (v \div b) % 2 = 1

\* ---------------------------------------------------------------- error taxonomy
\* mutant: every code is a generic ioctl error
ioctl_error_uniform(code) == [kind |-> "Ioctl", code |-> code]

\* Error::ioctl_error
ioctl_error(code) ==
    IF code = EBUSY THEN [kind |-> "DeviceIsBusy", code |-> code]
    ELSE IF code = ENOTTY THEN [kind |-> "NotSupportedIoctl", code |-> code]
    ELSE [kind |-> "Ioctl", code |-> code]

\* mutant: the error of the ioctl is discarded
IoctlFailedIgnored(ret) == ret # ret

\* ioctl! macro: a non-zero return is an error (errno in code)
IoctlFailed(ret) == ret # 0

\* ---------------------------------------------------------------- decoders
\* TryFrom<u32> for MediaPadFlags
PadFlagsTryFrom(v) ==
    IF Bit(v, MEDIA_PAD_FL_SINK)
    THEN [ok |-> TRUE, v |-> IF Bit(v, MEDIA_PAD_FL_MUST_CONNECT) THEN "SinkMustConnect" ELSE "Sink"]
    ELSE IF Bit(v, MEDIA_PAD_FL_SOURCE)
    THEN [ok |-> TRUE, v |-> IF Bit(v, MEDIA_PAD_FL_MUST_CONNECT) THEN "SourceMustConnect" ELSE "Source"]
    ELSE [ok |-> FALSE, v |-> [kind |-> "PadFlagsParseError", from |-> v]]

\* TryFrom<u32> for MediaEntityFlags
EntityFlagsTryFrom(v) ==
    IF v = MEDIA_ENT_FL_DEFAULT THEN [ok |-> TRUE, v |-> "MEDIA_ENT_FL_DEFAULT"]
    ELSE IF v = MEDIA_ENT_FL_CONNECTOR THEN [ok |-> TRUE, v |-> "MEDIA_ENT_FL_CONNECTOR"]
    ELSE [ok |-> FALSE, v |-> [kind |-> "EntityFlagsParseError", from |-> v]]

\* TryFrom<u32> for MediaEntityFunctions: every value of the match arms
\* (UNKNOWN, IO_V4L, IO_VBI, IO_SWRADIO, IO_DTV, DTV_DEMOD, TS_DEMUX, DTV_CA,
\*  DTV_NET_DECAP, CAM_SENSOR, FLASH, LENS, ATV_DECODER, TUNER, IF_VID_DECODER,
\*  IF_AUD_DECODER, AUDIO_CAPTURE, AUDIO_PLAYBACK, AUDIO_MIXER, PROC_VIDEO_COMPOSER,
\*  PROC_VIDEO_PIXEL_FORMATTER, PROC_VIDEO_PIXEL_ENC_CONV, PROC_VIDEO_LUT,
\*  PROC_VIDEO_SCALER, PROC_VIDEO_STATISTICS, PROC_VIDEO_ENCODER, PROC_VIDEO_DECODER,
\*  VID_MUX, VID_IF_BRIDGE, DV_DECODER, DV_ENCODER), as the values of linux/media.h
EntityFunctions == {MEDIA_ENT_F_UNKNOWN, MEDIA_ENT_F_IO_V4L, 4098, 4099, 4097,
                    1, 2, 3, 4,
                    MEDIA_ENT_F_CAM_SENSOR, 131074, 131075, 131076, 131077,
                    8193, 8194, 12289, 12290, 12291,
                    16385, 16386, 16387, 16388, 16389, 16390, 16391, 16392,
                    20481, 20482, 24577, 24578}
EntityFunctionsTryFrom(v) ==
    IF v \in EntityFunctions THEN [ok |-> TRUE, v |-> v]
    ELSE [ok |-> FALSE, v |-> [kind |-> "EntityFunctionsParseError", from |-> v]]

\* TryFrom<u32> for MediaInterfaceType: every value of the match arms
\* (DVB_FE, DVB_DEMUX, DVB_DVR, DVB_CA, DVB_NET, V4L_VIDEO, V4L_VBI, V4L_RADIO,
\*  V4L_SUBDEV, V4L_SWRADIO, V4L_TOUCH, ALSA_PCM_CAPTURE, ALSA_PCM_PLAYBACK,
\*  ALSA_CONTROL, ALSA_COMPRESS, ALSA_RAWMIDI, ALSA_HWDEP, ALSA_SEQUENCER,
\*  ALSA_TIMER), as the values of linux/media.h
InterfaceTypes == {MEDIA_INTF_T_DVB_FE, 257, 258, 259, 260,
                   MEDIA_INTF_T_V4L_VIDEO, 513, 514, MEDIA_INTF_T_V4L_SUBDEV, 516, 517,
                   768, 769, 770, 771, 772, 773, 774, 775}
InterfaceTypeTryFrom(v) ==
    IF v \in InterfaceTypes THEN [ok |-> TRUE, v |-> v]
    ELSE [ok |-> FALSE, v |-> [kind |-> "InterfaceTypeParseError", from |-> v]]

\* TryFrom<u32> for MediaLinkFlags: from_bits(v & !MEDIA_LNK_FL_LINK_TYPE); the error is the
\* Error::LinkTypeParseError the code names (a variant error.rs does not declare)
LinkFlagsTryFrom(v) ==
    IF v % LinkTypeUnit < 8 THEN [ok |-> TRUE, v |-> v % LinkTypeUnit]
    ELSE [ok |-> FALSE, v |-> [kind |-> "LinkTypeParseError", from |-> v]]

\* Each decoder returns [ok, v]; ok = FALSE means an unwrap()/unreachable!() panics.

\* CStr::from_bytes_until_nul: the bytes before the first NUL; an error if there is none
CStrFromBytesUntilNul(buf) ==
    IF \E i \in 1..Len(buf) : buf[i] = 0
    THEN LET n == CHOOSE i \in 1..Len(buf) : buf[i] = 0 /\ \A j \in 1..i - 1 : buf[j] # 0
         IN [ok |-> TRUE, v |-> SubSeq(buf, 1, n - 1)]
    ELSE [ok |-> FALSE, v |-> <<>>]

\* String::from_utf8_lossy as code points: ASCII bytes, two-byte sequences, and U+FFFD for
\* each maximal invalid part (the byte values used here need no longer sequences)
RECURSIVE ToStringLossy(_)
ToStringLossy(b) ==
    IF b = <<>> THEN <<>>
    ELSE IF b[1] < 128 THEN <<b[1]>> \o ToStringLossy(Tail(b))
    ELSE IF b[1] >= 194 /\ b[1] <= 223 /\ Len(b) >= 2 /\ b[2] >= 128 /\ b[2] <= 191
    THEN <<(b[1] - 192) * 64 + (b[2] - 128)>> \o ToStringLossy(Tail(Tail(b)))
    ELSE <<65533>> \o ToStringLossy(Tail(b))


\* MediaEntity::from_raw_entity (not present under src/; modelled on the data model and the
\* decoders' contract): the name stops at the first NUL (the whole bounded buffer when there
\* is none) with lossy UTF-8; an unrecognised function is a decode error; flags are Some iff
\* the entity-flags gate holds for the version, and then an unrecognised value is a decode
\* error, never masked. The result is not a Result, so a decode error is a panic.
from_raw_entity(ver, e) ==
    LET f == EntityFunctionsTryFrom(e.function)
        fl == EntityFlagsTryFrom(e.flags)
        gate == MEDIA_V2_ENTITY_HAS_FLAGS(ver)
        nm == CStrFromBytesUntilNul(e.name)
    IN [ok |-> f.ok /\ (gate => fl.ok),
        v |-> [id |-> e.id, name |-> ToStringLossy(IF nm.ok THEN nm.v ELSE e.name),
               function |-> f.v,
               flags |-> IF gate THEN <<fl.v>> ELSE <<>>]]

\* From<media_v2_interface> for MediaInterface
InterfaceFrom(i) ==
    LET t == InterfaceTypeTryFrom(i.intf_type)
    IN [ok |-> t.ok, v |-> [id |-> i.id, type |-> t.v, devnode |-> <<i.major, i.minor>>]]

\* MediaPad::from
PadFrom(ver, p) ==
    LET f == PadFlagsTryFrom(p.flags)
    IN [ok |-> f.ok,
        v |-> [id |-> p.id, entity_id |-> p.entity_id, flags |-> f.v,
               index |-> IF MEDIA_V2_PAD_HAS_INDEX(ver) THEN <<p.index>> ELSE <<>>]]

\* From<media_v2_link> for MediaLink
LinkFrom(l) ==
    LET ty == l.flags \div LinkTypeUnit
        fl == LinkFlagsTryFrom(l.flags)
        kind == CASE ty = 0 -> "DataLink"
                  [] ty = 1 -> "InterfaceLink"
                  [] ty = 2 -> "AncillaryLink"
                  [] OTHER -> "unreachable"
    IN [ok |-> kind # "unreachable" /\ fl.ok,
        v |-> [id |-> l.id, type |-> kind, source_id |-> l.source_id,
               sink_id |-> l.sink_id, flags |-> fl.v]]

\* the decoder a kind's records go through in from_fd
Decode(k, ver, r) ==
    CASE k = "entities" -> from_raw_entity(ver, r)
      [] k = "interfaces" -> InterfaceFrom(r)
      [] k = "pads" -> PadFrom(ver, r)
      [] k = "links" -> LinkFrom(r)

\* .into_iter().map(decoder).collect()
DecodeAll(k, ver, s) ==
    [ok |-> \A i \in 1..Len(s) : Decode(k, ver, s[i]).ok,
     v |-> [i \in 1..Len(s) |-> Decode(k, ver, s[i]).v]]

\* ---------------------------------------------------------------- device (kernel side)
Kinds == {"entities", "interfaces", "links", "pads"}

\* std::mem::zeroed() record of each kind
ZeroRec == [entities |-> [id |-> 0, function |-> 0, flags |-> 0, name |-> <<0, 0, 0>>],
            interfaces |-> [id |-> 0, intf_type |-> 0, major |-> 0, minor |-> 0],
            pads |-> [id |-> 0, entity_id |-> 0, flags |-> 0, index |-> 0],
            links |-> [id |-> 0, source_id |-> 0, sink_id |-> 0, flags |-> 0]]

Ent(i, fn, fl, nm) == [id |-> i, function |-> fn, flags |-> fl, name |-> nm]
Intf(i, t) == [id |-> i, intf_type |-> t, major |-> 81, minor |-> i]
Pad(i, e, fl, ix) == [id |-> i, entity_id |-> e, flags |-> fl, index |-> ix]
Lnk(i, so, si, fl) == [id |-> i, source_id |-> so, sink_id |-> si, flags |-> fl]

\* device graphs the kernel may hold
GraphA == [entities |-> <<Ent(10, MEDIA_ENT_F_CAM_SENSOR, 0, <<195, 169, 0>>), Ent(20, MEDIA_ENT_F_IO_V4L, MEDIA_ENT_FL_DEFAULT, <<65, 0, 0>>),
                          Ent(30, MEDIA_ENT_F_IO_V4L, 0, <<65, 65, 65>>)>>,
           interfaces |-> <<Intf(5, MEDIA_INTF_T_V4L_VIDEO)>>,
           pads |-> <<Pad(1, 10, MEDIA_PAD_FL_SOURCE, 0), Pad(2, 20, MEDIA_PAD_FL_SINK + MEDIA_PAD_FL_MUST_CONNECT, 0)>>,
           links |-> <<Lnk(3, 1, 2, MEDIA_LNK_FL_DATA_LINK + MEDIA_LNK_FL_ENABLED),
                       Lnk(4, 5, 20, MEDIA_LNK_FL_INTERFACE_LINK + MEDIA_LNK_FL_ENABLED + MEDIA_LNK_FL_IMMUTABLE)>>]
\* GraphA after removing entity 30 and the interface link: counts shrink
GraphB == [entities |-> <<Ent(10, MEDIA_ENT_F_CAM_SENSOR, 0, <<195, 169, 0>>), Ent(20, MEDIA_ENT_F_IO_V4L, MEDIA_ENT_FL_DEFAULT, <<65, 0, 0>>)>>,
           interfaces |-> <<>>,
           pads |-> <<Pad(1, 10, MEDIA_PAD_FL_SOURCE, 0)>>,
           links |-> <<>>]
\* GraphA with an additional entity and pad: counts grow
GraphC == [GraphA EXCEPT !.entities = Append(@, Ent(40, MEDIA_ENT_F_IO_V4L, 0, <<0, 0, 0>>)),
                         !.pads = Append(@, Pad(6, 40, MEDIA_PAD_FL_SINK, 0))]
\* undecodable records: pad flags 0, unknown link type, unknown interface type
GraphBadPad == [GraphB EXCEPT !.pads = <<Pad(1, 10, 0, 0)>>]
GraphBadLink == [GraphB EXCEPT !.links = <<Lnk(3, 1, 1, 3 * LinkTypeUnit)>>]
GraphBadIntf == [GraphB EXCEPT !.interfaces = <<Intf(5, 0)>>]
Graphs == {GraphA, GraphB, GraphC, GraphBadPad, GraphBadLink, GraphBadIntf}

\* raw errnos a control call may fail with for reasons outside the protocol
EnvCodes == {EBUSY, EIO}

\* media_v2_topology as passed to MEDIA_IOC_G_TOPOLOGY: version, num_* and whether ptr_* is non-null
ZeroTopology == [topology_version |-> 0, num |-> [k \in Kinds |-> 0], ptr |-> [k \in Kinds |-> FALSE]]

\* kernel media_device_get_topology: -ENOSPC when a non-null array is smaller than the
\* graph; otherwise sets the version and every num_*, and fills each non-null array
\* up to the graph's count, leaving trailing entries untouched.
KQuery(t, bufs, g, v) ==
    IF \E k \in Kinds : t.ptr[k] /\ Len(g[k]) > t.num[k]
    THEN [ret |-> ENOSPC, topo |-> t, bufs |-> bufs]
    ELSE [ret |-> 0,
          topo |-> [t EXCEPT !.topology_version = v, !.num = [k \in Kinds |-> Len(g[k])]],
          bufs |-> [k \in Kinds |->
                      IF t.ptr[k]
                      THEN [i \in 1..Len(bufs[k]) |-> IF i <= Len(g[k]) THEN g[k][i] ELSE bufs[k][i]]
                      ELSE bufs[k]]]

\* ---------------------------------------------------------------- builder
\* MediaTopologyBuilder::new and its setters
BuilderNew == [entities |-> FALSE, interfaces |-> FALSE, links |-> FALSE, pads |-> FALSE]
get_entity(b) == [b EXCEPT !.entities = TRUE]
\* mutant: get_interface toggles the flag
get_interface_toggle(b) == [b EXCEPT !.interfaces = ~@]
get_interface(b) == [b EXCEPT !.interfaces = TRUE]
\* mutant: get_link sets the pads flag
get_link_pad(b) == [b EXCEPT !.pads = TRUE]
get_link(b) == [b EXCEPT !.links = TRUE]
\* mutant: get_pad sets the entities flag
get_pad_entity(b) == [b EXCEPT !.entities = TRUE]
get_pad(b) == [b EXCEPT !.pads = TRUE]

Setters == {"get_entity", "get_interface", "get_link", "get_pad"}
\* apply a set of setter calls (in a fixed order)
Configure(S) ==
    LET b1 == IF "get_entity" \in S THEN get_entity(BuilderNew) ELSE BuilderNew
        b2 == IF "get_interface" \in S THEN get_interface(b1) ELSE b1
        b3 == IF "get_link" \in S THEN get_link(b2) ELSE b2
    IN IF "get_pad" \in S THEN get_pad(b3) ELSE b3

\* a call of the setter named m on the builder b
Call(m, b) ==
    CASE m = "get_entity" -> get_entity(b)
      [] m = "get_interface" -> get_interface(b)
      [] m = "get_link" -> get_link(b)
      [] m = "get_pad" -> get_pad(b)

\* a chain of setter calls applied in order
RECURSIVE ApplyCalls(_, _)
ApplyCalls(b, s) == IF s = <<>> THEN b ELSE ApplyCalls(Call(s[1], b), Tail(s))

\* mutant: one element too many
zeros_vec_extra(n, z) == [i \in 1..n + 1 |-> z]

\* zeros_vec
zeros_vec(n, z) == [i \in 1..n |-> z]

\* mutant: an empty collection is reported as None
then_some_nonempty(flag, x) == IF flag /\ x # <<>> THEN <<x>> ELSE <<>>

\* bool::then_some
then_some(flag, x) == IF flag THEN <<x>> ELSE <<>>

\* mutant: the version assertion is left out
VersionCheckSkip(v1, v2) == v1 = v1 \/ v2 = v2

\* assert_eq!(version, topology.topology_version)
VersionCheck(v1, v2) == v1 = v2

NoResult == [tag |-> "None"]

VARIABLES
    devVer,     \* current topology_version of the device
    devGraph,   \* current device graph
    hist,       \* graphs the device held at each version
    cfg,        \* the MediaTopologyBuilder flags
    mver,       \* info.media_version()
    pc,         \* position in MediaTopologyBuilder::from_fd
    topo,       \* the local media_v2_topology
    bufs,       \* the local entities/interfaces/links/pads vectors
    version,    \* let version = topology.topology_version (after the first ioctl)
    q1in,       \* struct passed to the first ioctl
    q2in,       \* struct and buffers passed to the second ioctl
    q1ret,      \* return code of the first ioctl
    q2ver,      \* topology_version the second ioctl reported
    nq,         \* number of MEDIA_IOC_G_TOPOLOGY calls issued by the build
    res,        \* result of the build
    res2,       \* result of MediaTopology::from_fd
    fPc,        \* position in MediaTopology::from_fd: "start", "sized", "done"
    fTopo,      \* from_fd's local media_v2_topology
    fBufs,      \* from_fd's entities/interfaces/links/pads vectors
    fVersion,   \* from_fd's let version = topology.topology_version
    cEnts,      \* entities the device answers MEDIA_IOC_ENUM_ENTITIES with
    cStart,     \* id MediaEntityIter::new was given
    cId,        \* MediaEntityIter.id as [flag (MEDIA_ENT_ID_FLAG_NEXT bit), low (other 31 bits)]
    cDesc,      \* MediaEntityIter.desc: <<>> (None) or <<descriptor>>
    cPc,        \* "new" before construction, "run", "panic"
    cOut,       \* ids of the entities next() has yielded
    cLook,      \* last lookup issued: argument, return code, id of the returned entity
    cLast,      \* what the last next() returned: "none" (no call yet), "Some", "None"
    cNlook,     \* lookups issued by the last next()
    cEnvFail,   \* some lookup of the cursor failed with a code other than EINVAL
    lGraph,     \* pads and outbound links of the entity MediaLinksEnum::new is asked about
    lMut,       \* number of device mutations while the enumeration runs
    lPc,        \* position in MediaLinksEnum::new: "start", "fetched", "done"
    lDesc,      \* the MediaEntityDesc fetched first
    lEnumIn,    \* pad and link buffer lengths attached to MEDIA_IOC_ENUM_LINKS
    lLog,       \* sequence of ioctls issued: "ENUM_ENTITIES", "ENUM_LINKS"
    lRes,       \* result of MediaLinksEnum::new
    rState,     \* kernel lifecycle state of the request: "none" (not allocated), "Allocated", "Queued", "Completed"
    rLastOp,    \* last Request operation: "none", "new", "init", "queue", "complete"
    rLastCode,  \* raw code of the last request ioctl (0 on success)
    rLastErr,   \* error returned by the last Request operation, or "none"
    rQueues,    \* number of successful queue() calls
    kOp,        \* operation whose failure is classified
    kCode,      \* raw errno being classified
    kOut,       \* classification result
    vIn,        \* packed u32 given to From<u32> for Version
    vTriple,    \* (major, minor, patch) given to Version::new
    vOut,       \* Into<u32>(From<u32>(vIn))
    vTripleOut, \* From<u32>(Into<u32>(Version::new(vTriple)))
    dKind,      \* which decoder is applied
    dVer,       \* media_version (major, minor, patch) given to the decoder
    dRec,       \* raw kernel record given to the decoder
    dOut        \* the decoder's result

bvars == <<devVer, devGraph, hist, cfg, mver, pc, topo, bufs, version, q1in, q2in, q1ret, q2ver, nq, res>>
fvars == <<fPc, fTopo, fBufs, fVersion, res2>>
cvars == <<cEnts, cStart, cId, cDesc, cPc, cOut, cLook, cLast, cNlook, cEnvFail>>
lvars == <<lGraph, lMut, lPc, lDesc, lEnumIn, lLog, lRes>>
rvars == <<rState, rLastOp, rLastCode, rLastErr, rQueues>>
dvars == <<dKind, dVer, dRec, dOut>>
kvars == <<kOp, kCode, kOut, vIn, vTriple, vOut, vTripleOut, dvars>>
ovars == <<lvars, rvars, kvars>>
vars == <<devVer, devGraph, hist, cfg, mver, pc, topo, bufs, version, q1in, q2in, q1ret, q2ver, nq, res,
          fPc, fTopo, fBufs, fVersion, res2,
          cEnts, cStart, cId, cDesc, cPc, cOut, cLook, cLast, cNlook, cEnvFail,
          lGraph, lMut, lPc, lDesc, lEnumIn, lLog, lRes,
          rState, rLastOp, rLastCode, rLastErr, rQueues,
          kOp, kCode, kOut, vIn, vTriple, vOut, vTripleOut,
          dKind, dVer, dRec, dOut>>

NoLookup == [arg |-> [flag |-> FALSE, low |-> 0], ret |-> 0, rid |-> 0]

\* cursor variables while no MediaEntityIter is in use
CursorIdle ==
    /\ cEnts = {}
    /\ cStart = 0
    /\ cId = [flag |-> FALSE, low |-> 0]
    /\ cDesc = <<>>
    /\ cPc = "new"
    /\ cOut = <<>>
    /\ cLook = NoLookup
    /\ cLast = "none"
    /\ cNlook = 0
    /\ cEnvFail = FALSE

\* variables of the links enumeration, the request and the pure conversions while unused
LinksIdle ==
    /\ lGraph = [pads |-> <<>>, links |-> <<>>, flags |-> 0]
    /\ lMut = 0
    /\ lPc = "start"
    /\ lDesc = <<>>
    /\ lEnumIn = [pads |-> 0, links |-> 0]
    /\ lLog = <<>>
    /\ lRes = NoResult

RequestIdle ==
    /\ rState = "none"
    /\ rLastOp = "none"
    /\ rLastCode = 0
    /\ rLastErr = "none"
    /\ rQueues = 0

DecodeIdle ==
    /\ dKind = "none"
    /\ dVer = <<0, 0, 0>>
    /\ dRec = [id |-> 0]
    /\ dOut = [tag |-> "none", ok |-> FALSE, v |-> 0]

ConvIdle ==
    /\ DecodeIdle
    /\ kOp = "none"
    /\ kCode = 0
    /\ kOut = [kind |-> "none", code |-> 0]
    /\ vIn = 0
    /\ vTriple = <<0, 0, 0>>
    /\ vOut = 0
    /\ vTripleOut = <<0, 0, 0>>

OtherIdle == LinksIdle /\ RequestIdle /\ ConvIdle

\* MediaTopology::from_fd not called yet
FromFdIdle ==
    /\ fPc = "start"
    /\ fTopo = ZeroTopology
    /\ fBufs = [k \in Kinds |-> <<>>]
    /\ fVersion = 0
    /\ res2 = NoResult

Init ==
    /\ CursorIdle
    /\ OtherIdle
    /\ devVer = 1
    /\ devGraph \in Graphs
    /\ hist = [v \in {1} |-> {devGraph}]
    /\ cfg \in {Configure(S) : S \in SUBSET Setters}
    /\ mver \in MediaVersions
    /\ pc = "start"
    /\ topo = ZeroTopology
    /\ bufs = [k \in Kinds |-> <<>>]
    /\ version = 0
    /\ q1in = ZeroTopology
    /\ q2in = [topo |-> ZeroTopology, bufs |-> [k \in Kinds |-> <<>>]]
    /\ q1ret = 0
    /\ q2ver = 0
    /\ nq = 0
    /\ res = NoResult
    /\ FromFdIdle

\* the kernel mutates the graph: topology_version increases
Mutate ==
    /\ devVer < MaxVer
    /\ \E g \in Graphs \ {devGraph} :
         /\ devGraph' = g
         /\ devVer' = devVer + 1
         /\ hist' = [v \in 1..devVer + 1 |-> IF v = devVer + 1 THEN {g} ELSE hist[v]]
    /\ UNCHANGED <<cfg, mver, pc, topo, bufs, version, q1in, q2in, q1ret, q2ver, nq, res>>
    /\ UNCHANGED fvars
    /\ UNCHANGED cvars
    /\ UNCHANGED ovars

\* kernel media_device_setup_link / __media_entity_setup_link (MEDIA_IOC_SETUP_LINK) on the
\* link found between the two given pads: the flags other than ENABLED (link type included)
\* must stay as they are, an IMMUTABLE link keeps its flags, otherwise the link takes the
\* new flags; topology_version is not changed. Only a data link joins two pads, so any
\* other link is not found (-EINVAL, as the flags check gives).
KSetupLink(l, f) ==
    LET fixed(x) == x - (x % 2)
    IN IF fixed(l.flags) # fixed(f) THEN [ret |-> EINVAL, flags |-> l.flags]
       ELSE IF Bit(l.flags, MEDIA_LNK_FL_IMMUTABLE)
       THEN [ret |-> IF l.flags = f THEN 0 ELSE EINVAL, flags |-> l.flags]
       ELSE [ret |-> 0, flags |-> f]

\* MediaLinkFlags values MediaLinkDesc::setup is called with
SetupFlags == {0, MEDIA_LNK_FL_ENABLED, MEDIA_LNK_FL_ENABLED + MEDIA_LNK_FL_DYNAMIC}

\* MediaLinkDesc::setup (media_link_desc.rs) issued by any process on a link of the device:
\* the link's flags change, the topology_version does not. A call the kernel rejects, or
\* one naming two pads with no link between them, leaves the device as it is.
LinkSetup ==
    /\ \E i \in 1..Len(devGraph.links), f \in SetupFlags :
         LET k == KSetupLink(devGraph.links[i], f)
             g == [devGraph EXCEPT !.links[i].flags = k.flags]
         IN /\ k.ret = 0
            /\ devGraph' = g
            /\ hist' = [hist EXCEPT ![devVer] = @ \cup {g}]
    /\ UNCHANGED <<devVer, cfg, mver, pc, topo, bufs, version, q1in, q2in, q1ret, q2ver, nq, res>>
    /\ UNCHANGED fvars
    /\ UNCHANGED cvars
    /\ UNCHANGED ovars

\* from_fd lines 143-184: zeroed struct, first ioctl, then buffers and pointers
BuildSize ==
    /\ pc = "start"
    /\ \E env \in {0} \cup EnvCodes :
         LET q == KQuery(ZeroTopology, [k \in Kinds |-> <<>>], devGraph, devVer)
             ret == IF env # 0 THEN env ELSE q.ret
             want == [k \in Kinds |-> cfg[k]]
             t == q.topo
             nb == [k \in Kinds |-> IF want[k] THEN zeros_vec(t.num[k], ZeroRec[k]) ELSE <<>>]
             nt == [t EXCEPT !.ptr = want]
         IN /\ q1in' = ZeroTopology
            /\ nq' = nq + 1
            /\ q1ret' = ret
            /\ IF IoctlFailed(ret)
               THEN /\ res' = [tag |-> "Err", err |-> ioctl_error(ret)]
                    /\ pc' = "done"
                    /\ UNCHANGED <<topo, bufs, version, q2in>>
               ELSE /\ version' = t.topology_version
                    /\ topo' = nt
                    /\ bufs' = nb
                    /\ q2in' = [topo |-> nt, bufs |-> nb]
                    /\ pc' = "sized"
                    /\ UNCHANGED res
    /\ UNCHANGED <<devVer, devGraph, hist, cfg, mver, q2ver>>
    /\ UNCHANGED fvars
    /\ UNCHANGED cvars
    /\ UNCHANGED ovars

\* the topology value MediaTopology::new(None, version, entities, interfaces, pads, links)
\* builds from the (optional) decoded collections
MediaTopologyNew(path, ver, e, i, p, l) ==
    [path |-> path, version |-> ver, entities |-> e, interfaces |-> i, pads |-> p, links |-> l]

\* from_fd lines 186-211: second ioctl, version assertion, decoding
\* mutant: the version is taken from the zeroed struct as it was before the ioctls
ResultVersion_input(t) == ZeroTopology.topology_version

\* the version MediaTopology::new is given: topology.topology_version after the second ioctl
ResultVersion(t) == t.topology_version

BuildPopulate ==
    /\ pc = "sized"
    /\ \E env \in {0} \cup EnvCodes :
         LET q == KQuery(topo, bufs, devGraph, devVer)
             ret == IF env # 0 THEN env ELSE q.ret
             d == [k \in Kinds |-> DecodeAll(k, mver, q.bufs[k])]
             decodeOk == \A k \in Kinds : cfg[k] => d[k].ok
         IN /\ nq' = nq + 1
            /\ pc' = "done"
            /\ IF IoctlFailed(ret)
               THEN /\ res' = [tag |-> "Err", err |-> ioctl_error(ret)]
                    /\ UNCHANGED <<topo, bufs, q2ver>>
               ELSE /\ topo' = q.topo
                    /\ bufs' = q.bufs
                    /\ q2ver' = q.topo.topology_version
                    /\ res' = IF ~VersionCheck(version, q.topo.topology_version)
                              THEN [tag |-> "Panic", why |-> "assert_eq"]
                              ELSE IF ~decodeOk
                              THEN [tag |-> "Panic", why |-> "decode"]
                              ELSE [tag |-> "Ok",
                                    topo |-> MediaTopologyNew("None", ResultVersion(q.topo),
                                               then_some(cfg.entities, d.entities.v),
                                               then_some(cfg.interfaces, d.interfaces.v),
                                               then_some(cfg.pads, d.pads.v),
                                               then_some(cfg.links, d.links.v))]
    /\ UNCHANGED <<devVer, devGraph, hist, cfg, mver, version, q1in, q2in, q1ret>>
    /\ UNCHANGED fvars
    /\ UNCHANGED cvars
    /\ UNCHANGED ovars

\* MediaTopology::from_fd (media_topology.rs) lines 80-97: zeroed struct, first ioctl,
\* then a zeroed vector of the reported count for every kind, every pointer attached
TopologyFromFdSize ==
    /\ fPc = "start"
    /\ \E env \in {0} \cup EnvCodes :
         LET q == KQuery(ZeroTopology, [k \in Kinds |-> <<>>], devGraph, devVer)
             ret == IF env # 0 THEN env ELSE q.ret
         IN IF IoctlFailed(ret)
            THEN /\ res2' = [tag |-> "Err", err |-> ioctl_error(ret)]
                 /\ fPc' = "done"
                 /\ UNCHANGED <<fTopo, fBufs, fVersion>>
            ELSE /\ fVersion' = q.topo.topology_version
                 /\ fTopo' = [q.topo EXCEPT !.ptr = [k \in Kinds |-> TRUE]]
                 /\ fBufs' = [k \in Kinds |-> zeros_vec(q.topo.num[k], ZeroRec[k])]
                 /\ fPc' = "sized"
                 /\ UNCHANGED res2
    /\ UNCHANGED bvars
    /\ UNCHANGED cvars
    /\ UNCHANGED ovars

\* MediaTopology::from_fd lines 99-119: second ioctl on the device as it stands then,
\* the version assertion and the decoding of every kind
TopologyFromFdPopulate ==
    /\ fPc = "sized"
    /\ \E env \in {0} \cup EnvCodes :
         LET q == KQuery(fTopo, fBufs, devGraph, devVer)
             ret == IF env # 0 THEN env ELSE q.ret
             d == [k \in Kinds |-> DecodeAll(k, mver, q.bufs[k])]
         IN /\ fPc' = "done"
            /\ IF IoctlFailed(ret)
               THEN /\ res2' = [tag |-> "Err", err |-> ioctl_error(ret)]
                    /\ UNCHANGED <<fTopo, fBufs>>
               ELSE /\ fTopo' = q.topo
                    /\ fBufs' = q.bufs
                    /\ res2' = IF ~VersionCheck(fVersion, q.topo.topology_version)
                               THEN [tag |-> "Panic", why |-> "assert_eq"]
                               ELSE IF \E k \in Kinds : ~d[k].ok
                               THEN [tag |-> "Panic", why |-> "decode"]
                               ELSE [tag |-> "Ok",
                                     topo |-> [path |-> "None", version |-> q.topo.topology_version,
                                               entities |-> d.entities.v, interfaces |-> d.interfaces.v,
                                               pads |-> d.pads.v, links |-> d.links.v]]
    /\ UNCHANGED fVersion
    /\ UNCHANGED bvars
    /\ UNCHANGED cvars
    /\ UNCHANGED ovars

\* MediaTopology::from_fd
TopologyFromFd == TopologyFromFdSize \/ TopologyFromFdPopulate

Next == Mutate \/ LinkSetup \/ BuildSize \/ BuildPopulate

Spec == Init /\ [][Next]_vars

\* a device whose topology does not change, queried by the builder and by MediaTopology::from_fd
NextStatic == BuildSize \/ BuildPopulate \/ TopologyFromFd

SpecStatic == Init /\ [][NextStatic]_vars

\* MediaTopology::from_fd on a device that other processes change between its two queries
NextFromFd == Mutate \/ LinkSetup \/ TopologyFromFd

SpecFromFd == Init /\ [][NextFromFd]_vars

\* ---------------------------------------------------------------- entity cursor
\* media_entity_desc as the kernel returns it
EDesc(i, ty, fl) == [id |-> i, type |-> ty, flags |-> fl, pads |-> 1, links |-> 0]

\* fixed devices the cursor runs against
CursorDevices == {
    {EDesc(1, MEDIA_ENT_F_CAM_SENSOR, MEDIA_ENT_FL_DEFAULT), EDesc(2, MEDIA_ENT_F_IO_V4L, MEDIA_ENT_FL_CONNECTOR),
     EDesc(3, MEDIA_ENT_F_IO_V4L, MEDIA_ENT_FL_DEFAULT)},
    {EDesc(1, MEDIA_ENT_F_CAM_SENSOR, MEDIA_ENT_FL_DEFAULT), EDesc(3, MEDIA_ENT_F_IO_V4L, 0)},
    {EDesc(2, MEDIA_ENT_F_IO_V4L, MEDIA_ENT_FL_DEFAULT)},
    {EDesc(1, MEDIA_ENT_F_CAM_SENSOR, MEDIA_ENT_FL_CONNECTOR), EDesc(2, MEDIA_ENT_F_IO_V4L, MEDIA_ENT_FL_DEFAULT),
     EDesc(4, MEDIA_ENT_F_IO_V4L, MEDIA_ENT_FL_DEFAULT)}}

CursorStartIds == {1, 2, 3, 4}

\* failures of MEDIA_IOC_ENUM_ENTITIES other than the lookup's own -EINVAL: media_devnode_ioctl
\* answers -EIO once the device has been unregistered (disconnected)
CursorEnvCodes == {EIO}

\* kernel MEDIA_IOC_ENUM_ENTITIES (find_entity): with the NEXT flag, the entity with the
\* smallest id above the cleared id; without it, the entity with exactly that id; -EINVAL if none
KEnumEntities(ents, arg) ==
    LET S == IF arg.flag THEN {e \in ents : e.id > arg.low} ELSE {e \in ents : e.id = arg.low}
    IN IF S = {} THEN [ret |-> EINVAL, desc |-> EDesc(0, 0, 0)]
       ELSE [ret |-> 0, desc |-> CHOOSE e \in S : \A f \in S : e.id <= f.id]

\* From<media_entity_desc> for MediaEntityDesc (type_ and flags are unwrap()ed)
MediaEntityDescFrom(d) ==
    [ok |-> EntityFunctionsTryFrom(d.type).ok /\ EntityFlagsTryFrom(d.flags).ok,
     v |-> [id |-> d.id, type |-> d.type, flags |-> d.flags, pads |-> d.pads, links |-> d.links]]

\* MediaEntity::from_desc (not present under src/): the entity the descriptor describes
from_desc(ver, d) == [id |-> d.id, function |-> d.type]

\* self.id | MEDIA_ENT_ID_FLAG_NEXT

OrNext(id) == [id EXCEPT !.flag = TRUE]

\* MediaEntityIter::desc: one lookup; any failure is None. Result [look, pc, desc]
IterDesc(ents, arg, env) ==
    LET k == KEnumEntities(ents, arg)
        ret == IF env # 0 THEN env ELSE k.ret
        d == MediaEntityDescFrom(k.desc)
    IN IF IoctlFailed(ret)
       THEN [look |-> [arg |-> arg, ret |-> ret, rid |-> 0], pc |-> "run", desc |-> <<>>]
       ELSE IF ~d.ok
       THEN [look |-> [arg |-> arg, ret |-> ret, rid |-> k.desc.id], pc |-> "panic", desc |-> <<>>]
       ELSE [look |-> [arg |-> arg, ret |-> ret, rid |-> k.desc.id], pc |-> "run", desc |-> <<d.v>>]

\* builder variables while only the cursor is in use
BuildIdle ==
    /\ devVer = 1
    /\ devGraph = GraphA
    /\ hist = [v \in {1} |-> {GraphA}]
    /\ cfg = BuilderNew
    /\ mver = 6 * 65536 + 1 * 256
    /\ pc = "start"
    /\ topo = ZeroTopology
    /\ bufs = [k \in Kinds |-> <<>>]
    /\ version = 0
    /\ q1in = ZeroTopology
    /\ q2in = [topo |-> ZeroTopology, bufs |-> [k \in Kinds |-> <<>>]]
    /\ q1ret = 0
    /\ q2ver = 0
    /\ nq = 0
    /\ res = NoResult
    /\ FromFdIdle

InitCursor ==
    /\ BuildIdle
    /\ OtherIdle
    /\ cEnvFail = FALSE
    /\ cEnts \in CursorDevices
    /\ cStart \in CursorStartIds
    /\ cId = [flag |-> FALSE, low |-> 0]
    /\ cDesc = <<>>
    /\ cPc = "new"
    /\ cOut = <<>>
    /\ cLook = NoLookup
    /\ cLast = "none"
    /\ cNlook = 0

\* MediaEntityIter::new
IterNew ==
    /\ cPc = "new"
    /\ \E env \in {0} \cup CursorEnvCodes :
         LET r == IterDesc(cEnts, [flag |-> FALSE, low |-> cStart], env)
         IN /\ cId' = [flag |-> FALSE, low |-> cStart]
            /\ cDesc' = r.desc
            /\ cPc' = r.pc
            /\ cLook' = r.look
            /\ cEnvFail' = (env # 0)
    /\ UNCHANGED <<cEnts, cStart, cOut, cLast, cNlook>>
    /\ UNCHANGED <<bvars, fvars>>
    /\ UNCHANGED ovars

\* Iterator::next for MediaEntityIter
IterNext ==
    /\ cPc = "run"
    /\ IF cDesc = <<>>
       THEN /\ cLast' = "None"
            /\ cNlook' = 0
            /\ UNCHANGED <<cId, cDesc, cPc, cOut, cLook, cEnvFail>>
       ELSE \E env \in {0} \cup CursorEnvCodes :
              LET entity == from_desc(mver, cDesc[1])
                  r == IterDesc(cEnts, OrNext(cId), env)
              IN /\ cLook' = r.look
                 /\ cNlook' = 1
                 /\ cEnvFail' = (cEnvFail \/ env # 0)
                 /\ cPc' = r.pc
                 /\ cDesc' = r.desc
                 /\ cId' = IF r.desc # <<>> THEN [flag |-> FALSE, low |-> r.desc[1].id] ELSE cId
                 /\ IF r.pc = "panic"
                    THEN UNCHANGED <<cOut, cLast>>
                    ELSE /\ cOut' = Append(cOut, entity.id)
                         /\ cLast' = "Some"
    /\ UNCHANGED <<cEnts, cStart>>
    /\ UNCHANGED <<bvars, fvars>>
    /\ UNCHANGED ovars

NextCursor == IterNew \/ IterNext

SpecCursor == InitCursor /\ [][NextCursor]_vars

\* ---------------------------------------------------------------- links enumeration
\* id of the entity MediaLinksEnum::new is asked about
LinksEntity == 1

\* how many times the kernel may change the entity during one enumeration
MaxLinkMut == 2

\* media_pad_desc / media_link_desc records as the kernel writes them
PDesc(e, ix, fl) == [entity |-> e, index |-> ix, flags |-> fl]
LDesc(so, si, fl) == [source |-> so, sink |-> si, flags |-> fl]
ZeroPadDesc == PDesc(0, 0, 0)
ZeroLinkDesc == LDesc(ZeroPadDesc, ZeroPadDesc, 0)

\* the entity's pads and outbound links, and its entity flags
LGraphFull == [flags |-> MEDIA_ENT_FL_DEFAULT,
               pads |-> <<PDesc(1, 0, MEDIA_PAD_FL_SOURCE), PDesc(1, 1, MEDIA_PAD_FL_SINK)>>,
               links |-> <<LDesc(PDesc(1, 0, MEDIA_PAD_FL_SOURCE), PDesc(2, 0, MEDIA_PAD_FL_SINK),
                                 MEDIA_LNK_FL_DATA_LINK + MEDIA_LNK_FL_ENABLED)>>]
LGraphShrunk == [LGraphFull EXCEPT !.pads = <<PDesc(1, 0, MEDIA_PAD_FL_SOURCE)>>, !.links = <<>>]
LGraphGrown == [LGraphFull EXCEPT !.pads = Append(@, PDesc(1, 2, MEDIA_PAD_FL_SINK)),
                                  !.links = Append(@, LDesc(PDesc(1, 0, MEDIA_PAD_FL_SOURCE), PDesc(3, 0, MEDIA_PAD_FL_SINK),
                                                            MEDIA_LNK_FL_ANCILLARY_LINK))]
LGraphNoFlags == [LGraphFull EXCEPT !.flags = 0]
LMutTargets == {LGraphFull, LGraphShrunk, LGraphGrown}
LInitGraphs == {LGraphFull, LGraphShrunk, LGraphGrown, LGraphNoFlags}

\* kernel MEDIA_IOC_ENUM_ENTITIES for an existing id: the entity's descriptor
KEntityDesc(g) == [id |-> LinksEntity, type |-> MEDIA_ENT_F_IO_V4L, flags |-> g.flags,
                   pads |-> Len(g.pads), links |-> Len(g.links)]

\* kernel MEDIA_IOC_ENUM_LINKS: copy_to_user()s every pad, then every outbound link, of the
\* entity into the user arrays without a size check; entries past the entity's count stay as
\* they were. An empty Vec's pointer is dangling (not mapped): the first copy into it faults
\* and the ioctl fails with -EFAULT (padFault: no pad written; linkFault: after the pads).
\* overrun = TRUE when the kernel writes past the end of a non-empty heap buffer.
KEnumLinks(np, nl, g) ==
    [padFault |-> np = 0 /\ Len(g.pads) > 0,
     linkFault |-> nl = 0 /\ Len(g.links) > 0,
     padOverrun |-> np > 0 /\ Len(g.pads) > np,
     linkOverrun |-> nl > 0 /\ Len(g.links) > nl,
     pads |-> [i \in 1..np |-> IF i <= Len(g.pads) THEN g.pads[i] ELSE ZeroPadDesc],
     links |-> [i \in 1..nl |-> IF i <= Len(g.links) THEN g.links[i] ELSE ZeroLinkDesc]]

\* From<media_pad_desc> for MediaPadDesc (flags unwrap()ed)
MediaPadDescFrom(p) ==
    LET f == PadFlagsTryFrom(p.flags)
    IN [ok |-> f.ok, v |-> [entity |-> p.entity, index |-> p.index, flags |-> f.v]]

\* From<media_link_desc> for MediaLinkDesc (link type assert!, pads and flags unwrap()ed)
MediaLinkDescFrom(l) ==
    LET ty == l.flags \div LinkTypeUnit
        so == MediaPadDescFrom(l.source)
        si == MediaPadDescFrom(l.sink)
        fl == LinkFlagsTryFrom(l.flags)
    IN [ok |-> (ty = 0 \/ ty = 2) /\ so.ok /\ si.ok /\ fl.ok,
        v |-> [source |-> so.v, sink |-> si.v, flags |-> fl.v]]

\* mutant: the link buffer is sized one short
enum_zeros_vec_short(n, z) == [i \in 1..n - 1 |-> z]

\* zeros_vec (media_link_enum.rs)
enum_zeros_vec(n, z) == [i \in 1..n |-> z]

InitLinks ==
    /\ BuildIdle
    /\ CursorIdle
    /\ RequestIdle
    /\ ConvIdle
    /\ lGraph \in LInitGraphs
    /\ lMut = 0
    /\ lPc = "start"
    /\ lDesc = <<>>
    /\ lEnumIn = [pads |-> 0, links |-> 0]
    /\ lLog = <<>>
    /\ lRes = NoResult

\* the kernel changes the entity's pads/links while the enumeration runs
LinksMutate ==
    /\ lMut < MaxLinkMut
    /\ \E g \in LMutTargets \ {lGraph} : lGraph' = [g EXCEPT !.flags = lGraph.flags]
    /\ lMut' = lMut + 1
    /\ UNCHANGED <<lPc, lDesc, lEnumIn, lLog, lRes>>
    /\ UNCHANGED <<bvars, fvars, cvars, rvars, kvars>>

\* MediaLinkDesc::setup on one of the entity's links, by any process at any time: the
\* link's flags change, the pad and link counts do not (not counted as a mutation)
LinksSetup ==
    /\ \E i \in 1..Len(lGraph.links), f \in SetupFlags :
         LET k == KSetupLink(lGraph.links[i], f)
         IN /\ k.ret = 0
            /\ lGraph' = [lGraph EXCEPT !.links[i].flags = k.flags]
    /\ UNCHANGED <<lMut, lPc, lDesc, lEnumIn, lLog, lRes>>
    /\ UNCHANGED <<bvars, fvars, cvars, rvars, kvars>>

\* MediaLinksEnum::new line 31: MediaEntityDesc::from_fd(fd, entity)?
LinksFetch ==
    /\ lPc = "start"
    /\ \E env \in {0} \cup EnvCodes :
         LET d == MediaEntityDescFrom(KEntityDesc(lGraph))
         IN /\ lLog' = Append(lLog, "ENUM_ENTITIES")
            /\ IF IoctlFailed(env)
               THEN /\ lRes' = [tag |-> "Err", err |-> ioctl_error(env)]
                    /\ lPc' = "done"
                    /\ UNCHANGED lDesc
               ELSE IF ~d.ok
               THEN /\ lRes' = [tag |-> "Panic", why |-> "decode"]
                    /\ lPc' = "done"
                    /\ UNCHANGED lDesc
               ELSE /\ lDesc' = <<d.v>>
                    /\ lPc' = "fetched"
                    /\ UNCHANGED lRes
    /\ UNCHANGED <<lGraph, lMut, lEnumIn>>
    /\ UNCHANGED <<bvars, fvars, cvars, rvars, kvars>>

\* MediaLinksEnum::new lines 32-47: buffers, MEDIA_IOC_ENUM_LINKS, decoding
LinksEnumerate ==
    /\ lPc = "fetched"
    /\ \E env \in {0} \cup EnvCodes :
         LET pb == enum_zeros_vec(lDesc[1].pads, ZeroPadDesc)
             lb == enum_zeros_vec(lDesc[1].links, ZeroLinkDesc)
             k == KEnumLinks(Len(pb), Len(lb), lGraph)
             dp == [i \in 1..Len(k.pads) |-> MediaPadDescFrom(k.pads[i])]
             dl == [i \in 1..Len(k.links) |-> MediaLinkDescFrom(k.links[i])]
             decoded == IF (\A i \in 1..Len(dp) : dp[i].ok) /\ (\A i \in 1..Len(dl) : dl[i].ok)
                        THEN [tag |-> "Ok", pads |-> [i \in 1..Len(dp) |-> dp[i].v],
                              links |-> [i \in 1..Len(dl) |-> dl[i].v]]
                        ELSE [tag |-> "Panic", why |-> "decode"]
         IN /\ lEnumIn' = [pads |-> Len(pb), links |-> Len(lb)]
            /\ lLog' = Append(lLog, "ENUM_LINKS")
            /\ lPc' = "done"
            /\ IF IoctlFailed(env)
               THEN lRes' = [tag |-> "Err", err |-> ioctl_error(env)]
               ELSE IF k.padFault
               THEN lRes' = [tag |-> "Err", err |-> ioctl_error(EFAULT)]
               \* the kernel writes past a heap buffer: undefined behaviour
               ELSE IF k.linkFault
               THEN lRes' \in {[tag |-> "Err", err |-> ioctl_error(EFAULT)]}
                               \cup (IF k.padOverrun THEN {[tag |-> "Panic", why |-> "memory"]} ELSE {})
               ELSE IF k.padOverrun \/ k.linkOverrun
               THEN lRes' \in {[tag |-> "Panic", why |-> "memory"], decoded}
               ELSE lRes' = decoded
    /\ UNCHANGED <<lGraph, lMut, lDesc>>
    /\ UNCHANGED <<bvars, fvars, cvars, rvars, kvars>>

NextLinks == LinksMutate \/ LinksSetup \/ LinksFetch \/ LinksEnumerate

SpecLinks == InitLinks /\ [][NextLinks]_vars

\* ---------------------------------------------------------------- requests
ENOENT == 2
ENOMEM == 12
EMFILE == 24

\* the request ioctls
MEDIA_IOC_REQUEST_ALLOC == "REQUEST_ALLOC"
MEDIA_REQUEST_IOC_QUEUE == "REQUEST_QUEUE"
MEDIA_REQUEST_IOC_REINIT == "REQUEST_REINIT"

\* bound on the number of request calls in one behaviour
MaxReqOps == 8

\* kernel media_ioctl_request_alloc: no req_alloc op (-ENOTTY), no memory, no fd left
KAllocCodes == {0, ENOTTY, ENOMEM, EMFILE}

\* raw errno values considered
MaxErrno == 30

\* the return codes of the request ioctls for a request in state st. Queue: from Allocated
\* or Completed it may succeed or fail validation with the driver's codes (a kernel that
\* wants an idle request answers -EBUSY from Completed); a Queued request is -EBUSY. Reinit:
\* -EBUSY while Queued, success otherwise, and besides the kernel's own answer the call may
\* report any other raw errno, which Request::init passes on unchanged.
KRequestCodes(api, st) ==
    IF api = MEDIA_REQUEST_IOC_QUEUE
    THEN IF st \in {"Allocated", "Completed"} THEN {0, EBUSY, ENOENT, ENOMEM, EINVAL, EIO} ELSE {EBUSY}
    ELSE IF api = MEDIA_REQUEST_IOC_REINIT
    THEN (IF st = "Queued" THEN {EBUSY} ELSE {0}) \cup 1..MaxErrno
    ELSE {ENOTTY}

\* the request's state after the call; a failed call leaves it as it was
KRequestNext(api, st, code) ==
    IF code # 0 THEN st
    ELSE IF api = MEDIA_REQUEST_IOC_QUEUE THEN "Queued"
    ELSE IF api = MEDIA_REQUEST_IOC_REINIT THEN "Allocated"
    ELSE st

\* mutant: queue maps every other code to HardwareBadState
QueueRemap_catchall(err) ==
    IF err.kind = "Ioctl"
    THEN CASE err.code = EBUSY -> [kind |-> "RequestIsAlreadyQueued", code |-> err.code]
           [] err.code = ENOENT -> [kind |-> "RequestNotContainBuffers", code |-> err.code]
           [] err.code = ENOMEM -> [kind |-> "OutOfMemory", code |-> err.code]
           [] err.code = EINVAL -> [kind |-> "RequestHasInvalidData", code |-> err.code]
           [] OTHER -> [kind |-> "HardwareBadState", code |-> err.code]
    ELSE err

\* Request::queue map_err: only an Error::Ioctl is remapped by its raw code
QueueRemap(err) ==
    IF err.kind = "Ioctl"
    THEN CASE err.code = EBUSY -> [kind |-> "RequestIsAlreadyQueued", code |-> err.code]
           [] err.code = ENOENT -> [kind |-> "RequestNotContainBuffers", code |-> err.code]
           [] err.code = ENOMEM -> [kind |-> "OutOfMemory", code |-> err.code]
           [] err.code = EINVAL -> [kind |-> "RequestHasInvalidData", code |-> err.code]
           [] err.code = EIO -> [kind |-> "HardwareBadState", code |-> err.code]
           [] OTHER -> err
    ELSE err

\* mutant: init issues the queue ioctl
init_api_queue == MEDIA_REQUEST_IOC_QUEUE

\* Request::init's ioctl
init_api == MEDIA_REQUEST_IOC_REINIT

InitRequest ==
    /\ BuildIdle
    /\ CursorIdle
    /\ LinksIdle
    /\ ConvIdle
    /\ RequestIdle

\* Request::new: ioctl!(media_fd, MEDIA_IOC_REQUEST_ALLOC, &mut request_fd)?
RequestNew ==
    /\ rState = "none"
    /\ rQueues < MaxReqOps
    /\ \E code \in KAllocCodes :
         /\ rState' = IF IoctlFailed(code) THEN "none" ELSE "Allocated"
         /\ rLastOp' = "alloc"
         /\ rLastCode' = code
         /\ rLastErr' = IF IoctlFailed(code) THEN ioctl_error(code) ELSE "none"
    /\ rQueues' = rQueues + 1
    /\ UNCHANGED <<bvars, fvars, cvars, lvars, kvars>>

\* Request::init: ioctl!(self.request_fd, MEDIA_REQUEST_IOC_REINIT)
RequestInit ==
    /\ rState \in {"Allocated", "Queued", "Completed"}
    /\ rQueues < MaxReqOps
    /\ \E code \in KRequestCodes(init_api, rState) :
         /\ rState' = KRequestNext(init_api, rState, code)
         /\ rLastOp' = "reinit"
         /\ rLastCode' = code
         /\ rLastErr' = IF IoctlFailed(code) THEN ioctl_error(code) ELSE "none"
    /\ rQueues' = rQueues + 1
    /\ UNCHANGED <<bvars, fvars, cvars, lvars, kvars>>

\* Request::queue: ioctl!(self.request_fd, MEDIA_REQUEST_IOC_QUEUE).map_err(..)
RequestQueue ==
    /\ rState \in {"Allocated", "Queued", "Completed"}
    /\ rQueues < MaxReqOps
    /\ \E code \in KRequestCodes(MEDIA_REQUEST_IOC_QUEUE, rState) :
         /\ rState' = KRequestNext(MEDIA_REQUEST_IOC_QUEUE, rState, code)
         /\ rLastOp' = "queue"
         /\ rLastCode' = code
         /\ rLastErr' = IF IoctlFailed(code) THEN QueueRemap(ioctl_error(code)) ELSE "none"
    /\ rQueues' = rQueues + 1
    /\ UNCHANGED <<bvars, fvars, cvars, lvars, kvars>>

\* the driver completes a queued request
RequestComplete ==
    /\ rState = "Queued"
    /\ rState' = "Completed"
    /\ rLastOp' = "complete"
    /\ UNCHANGED <<rLastCode, rLastErr, rQueues>>
    /\ UNCHANGED <<bvars, fvars, cvars, lvars, kvars>>

NextRequest == RequestNew \/ RequestInit \/ RequestQueue \/ RequestComplete

SpecRequest == InitRequest /\ [][NextRequest]_vars

\* ---------------------------------------------------------------- error classification
\* the ioctls the library issues
MEDIA_IOC_SETUP_LINK == "SETUP_LINK"
MEDIA_IOC_G_TOPOLOGY == "G_TOPOLOGY"
MEDIA_IOC_ENUM_ENTITIES == "ENUM_ENTITIES"
MEDIA_IOC_ENUM_LINKS == "ENUM_LINKS"
Ops == {MEDIA_IOC_SETUP_LINK, MEDIA_IOC_G_TOPOLOGY, MEDIA_IOC_ENUM_ENTITIES, MEDIA_IOC_ENUM_LINKS,
        MEDIA_IOC_REQUEST_ALLOC, MEDIA_REQUEST_IOC_REINIT, MEDIA_REQUEST_IOC_QUEUE}

\* the error a failed ioctl of operation op reports: ioctl! -> Error::ioctl_error, then the
\* operation's own remapping (only Request::queue has one)
Classify(op, code) ==
    IF op = MEDIA_REQUEST_IOC_QUEUE THEN QueueRemap(ioctl_error(code)) ELSE ioctl_error(code)

InitClassify ==
    /\ DecodeIdle
    /\ BuildIdle
    /\ CursorIdle
    /\ LinksIdle
    /\ RequestIdle
    /\ kOp \in Ops
    /\ kCode \in 1..MaxErrno
    /\ kOut = [kind |-> "none", code |-> 0]
    /\ vIn = 0
    /\ vTriple = <<0, 0, 0>>
    /\ vOut = 0
    /\ vTripleOut = <<0, 0, 0>>

ClassifyStep ==
    /\ kOut = [kind |-> "none", code |-> 0]
    /\ kOut' = Classify(kOp, kCode)
    /\ UNCHANGED <<kOp, kCode, vIn, vTriple, vOut, vTripleOut, dvars>>
    /\ UNCHANGED <<bvars, fvars, cvars, lvars, rvars>>

NextClassify == ClassifyStep

SpecClassify == InitClassify /\ [][NextClassify]_vars

\* ---------------------------------------------------------------- version packing
\* sampled byte values: multiples of ByteStride, plus 1 and 255
ByteStride == 64
ByteSample == {b \in 0..255 : b % ByteStride = 0} \cup {1, 255}

\* packed inputs: every packing of sampled bytes, and a few values with bits above bit 23
VerInputs == {b1 * 65536 + b2 * 256 + b3 : b1, b2, b3 \in ByteSample}
             \cup {2^24 + 5, 2^24 + 4 * 65536 + 18 * 256}

RECURSIVE BitAnd(_, _)
BitAnd(a, b) ==
    IF a = 0 \/ b = 0 THEN 0
    ELSE 2 * BitAnd(a \div 2, b \div 2) + (IF a % 2 = 1 /\ b % 2 = 1 THEN 1 ELSE 0)

RECURSIVE BitOr(_, _)
BitOr(a, b) ==
    IF a = 0 THEN b
    ELSE IF b = 0 THEN a
    ELSE 2 * BitOr(a \div 2, b \div 2) + (IF a % 2 = 1 \/ b % 2 = 1 THEN 1 ELSE 0)

\* x << k on u32 (the operands here never exceed 2^24)
Shl(x, k) == x * 2^k
Shr(x, k) == x \div 2^k

\* From<u32> for Version: <<major, minor, patch>>, each `as u8`
VersionFrom(ver) ==
    << Shr(BitAnd(ver, Shl(255, 16)), 16) % 256,
       Shr(BitAnd(ver, Shl(255, 8)), 8) % 256,
       Shr(BitAnd(ver, Shl(255, 0)), 0) % 256 >>

\* mutant: minor shifted by 4
VersionInto_shift4(t) == BitOr(BitOr(Shl(t[1], 16), Shl(t[2], 4)), t[3])

\* Into<u32> for Version
VersionInto(t) == BitOr(BitOr(Shl(t[1], 16), Shl(t[2], 8)), t[3])

InitVersion ==
    /\ DecodeIdle
    /\ BuildIdle
    /\ CursorIdle
    /\ LinksIdle
    /\ RequestIdle
    /\ kOp = "none"
    /\ kCode = 0
    /\ kOut = [kind |-> "none", code |-> 0]
    /\ vIn \in VerInputs
    /\ vTriple \in ByteSample \X ByteSample \X ByteSample
    /\ vOut = -1
    /\ vTripleOut = <<-1, -1, -1>>

\* let v: Version = vIn.into(); let back: u32 = v.into();
VersionFromInto ==
    /\ vOut = -1
    /\ vOut' = VersionInto(VersionFrom(vIn))
    /\ UNCHANGED <<kOp, kCode, kOut, vIn, vTriple, vTripleOut, dvars>>
    /\ UNCHANGED <<bvars, fvars, cvars, lvars, rvars>>

\* let packed: u32 = Version { major, minor, patch }.into(); let v: Version = packed.into();
VersionIntoFrom ==
    /\ vTripleOut = <<-1, -1, -1>>
    /\ vTripleOut' = VersionFrom(VersionInto(vTriple))
    /\ UNCHANGED <<kOp, kCode, kOut, vIn, vTriple, vOut, dvars>>
    /\ UNCHANGED <<bvars, fvars, cvars, lvars, rvars>>

NextVersion == VersionFromInto \/ VersionIntoFrom

SpecVersion == InitVersion /\ [][NextVersion]_vars

\* ---------------------------------------------------------------- record decoders
\* fixed-size name buffers (the kernel's are 32 or 64 bytes; NameLen bytes here), over bytes
\* NUL, 'A', and the two bytes of UTF-8 "é" (0xC3 0xA9), which alone are invalid UTF-8
NameLen == 3
NameBytes == {0, 65, 195, 169}
Names == [1..NameLen -> NameBytes]

\* the bytes of media_entity_desc after name[32], as little-endian memory: type, revision,
\* flags, group_id, pads, links, then reserved[4], which the zeroed struct keeps at 0
DescTail(r) ==
    LET LE32(x) == <<x % 256, (x \div 256) % 256, (x \div 65536) % 256, (x \div 16777216) % 256>>
        LE16(x) == <<x % 256, (x \div 256) % 256>>
    IN LE32(r.type) \o LE32(r.revision) \o LE32(r.flags) \o LE32(r.group_id)
         \o LE16(r.pads) \o LE16(r.links) \o <<0, 0, 0, 0>>

\* CStr::from_ptr(desc.name.as_ptr()).to_string_lossy(): reads up to the first NUL; without a
\* NUL in name it reads on into the fields that follow it in the struct (undefined behaviour
\* in Rust's terms, but the bytes read are those of the local struct) and stops at the first
\* NUL there, at the latest in the zeroed reserved words
CStrFromPtrLossy(r) ==
    {[ok |-> TRUE, v |-> ToStringLossy(CStrFromBytesUntilNul(r.name \o DescTail(r)).v)]}

\* From<media_v2_entity> for MediaEntity: name unwrap()ed from from_bytes_until_nul, function
\* unwrap()ed, flags = try_into().ok()
MediaEntityFromV2(e) ==
    LET n == CStrFromBytesUntilNul(e.name)
        f == EntityFunctionsTryFrom(e.function)
        fl == EntityFlagsTryFrom(e.flags)
    IN [ok |-> n.ok /\ f.ok,
        v |-> [id |-> e.id, name |-> ToStringLossy(n.v), function |-> f.v,
               flags |-> IF fl.ok THEN <<fl.v>> ELSE <<>>]]

\* media_version values given to the decoders
DecVersions == {<<4, 18, 0>>, <<4, 19, 0>>, <<6, 1, 0>>}

\* raw flag values tried
PadFlagSample == {0, 1, 2, 3, 5, 6, 7, 8, 9}
EntFlagSample == {0, 1, 2, 3, 4}
\* link flags: type discriminants 0..3 and 7 (bits 28..31) over enable/immutable/dynamic and unknown bits
LinkFlagSample == {t * LinkTypeUnit + f : t \in {0, 1, 2, 3, 7}, f \in {0, 1, 3, 5, 7, 8, 9}}

\* chains of setter calls of length at most MaxCalls
MaxCalls == 3
CallSeqs == UNION {[1..n -> Setters] : n \in 0..MaxCalls}
SetOf(sq) == {sq[i] : i \in 1..Len(sq)}

\* mutant: SinkMustConnect loses its must-connect bit
PadFlagsInto_nomc(f) ==
    CASE f = "Sink" -> MEDIA_PAD_FL_SINK
      [] f = "Source" -> MEDIA_PAD_FL_SOURCE
      [] f = "SinkMustConnect" -> MEDIA_PAD_FL_SINK
      [] f = "SourceMustConnect" -> BitOr(MEDIA_PAD_FL_SOURCE, MEDIA_PAD_FL_MUST_CONNECT)

\* From<MediaPadFlags> for u32
PadFlagsInto(f) ==
    CASE f = "Sink" -> MEDIA_PAD_FL_SINK
      [] f = "Source" -> MEDIA_PAD_FL_SOURCE
      [] f = "SinkMustConnect" -> BitOr(MEDIA_PAD_FL_SINK, MEDIA_PAD_FL_MUST_CONNECT)
      [] f = "SourceMustConnect" -> BitOr(MEDIA_PAD_FL_SOURCE, MEDIA_PAD_FL_MUST_CONNECT)

\* the MediaPadFlags variants
PadFlagValues == {"Sink", "Source", "SinkMustConnect", "SourceMustConnect"}

\* the decoders applied, and the raw records each is given
DecodeKinds == {"pad", "entity", "link", "linkdesc", "linkflags", "padflags", "entflags", "descname", "intf", "builder", "padrt"}
RawRecs(k) ==
    CASE k = "pad" -> [id : {1}, entity_id : {1}, flags : PadFlagSample, index : {0, 2}]
      [] k = "entity" -> [id : {1}, name : Names, function : {MEDIA_ENT_F_IO_V4L, 7},
                          flags : EntFlagSample]
      [] k = "link" -> [id : {1}, source_id : {1}, sink_id : {2}, flags : LinkFlagSample]
      [] k = "linkdesc" -> [source : {PDesc(1, 0, MEDIA_PAD_FL_SOURCE)}, sink : {PDesc(2, 0, MEDIA_PAD_FL_SINK)},
                            flags : LinkFlagSample]
      [] k = "linkflags" -> [flags : LinkFlagSample]
      [] k = "padflags" -> [flags : PadFlagSample]
      [] k = "entflags" -> [flags : EntFlagSample]
      [] k = "descname" -> [name : Names, type : {MEDIA_ENT_F_IO_V4L, 16385, MEDIA_ENT_F_UNKNOWN},
                            revision : {0}, flags : {MEDIA_ENT_FL_DEFAULT}, group_id : {0},
                            pads : {1}, links : {0}]
      [] k = "intf" -> [id : {1}, intf_type : {MEDIA_INTF_T_DVB_FE, MEDIA_INTF_T_V4L_VIDEO, 7},
                        major : {81}, minor : {0, 3}]
      [] k = "padrt" -> [f : PadFlagValues]
      [] k = "builder" -> {r \in [s1 : CallSeqs, s2 : CallSeqs] : SetOf(r.s1) = SetOf(r.s2)}

DecodeOf(k, ver, r) ==
    CASE k = "pad" -> PadFrom(VersionInto(ver), r)
      [] k = "entity" -> MediaEntityFromV2(r)
      [] k = "link" -> LinkFrom(r)
      [] k = "linkdesc" -> MediaLinkDescFrom(r)
      [] k = "linkflags" -> LinkFlagsTryFrom(r.flags)
      [] k = "padflags" -> PadFlagsTryFrom(r.flags)
      [] k = "entflags" -> EntityFlagsTryFrom(r.flags)
      [] k = "intf" -> InterfaceFrom(r)
      [] k = "padrt" -> PadFlagsTryFrom(PadFlagsInto(r.f))
      [] k = "builder" -> [ok |-> TRUE, v |-> [b1 |-> ApplyCalls(BuilderNew, r.s1),
                                                b2 |-> ApplyCalls(BuilderNew, r.s2)]]

\* the possible results of a decoder; only the name of From<media_entity_desc> has several
DecodeOutcomes(k, ver, r) ==
    IF k = "descname" THEN CStrFromPtrLossy(r) ELSE {DecodeOf(k, ver, r)}

InitDecode ==
    /\ BuildIdle
    /\ CursorIdle
    /\ LinksIdle
    /\ RequestIdle
    /\ kOp = "none"
    /\ kCode = 0
    /\ kOut = [kind |-> "none", code |-> 0]
    /\ vIn = 0
    /\ vTriple = <<0, 0, 0>>
    /\ vOut = 0
    /\ vTripleOut = <<0, 0, 0>>
    /\ dKind \in DecodeKinds
    /\ dVer \in DecVersions
    /\ dRec \in RawRecs(dKind)
    /\ dOut = [tag |-> "none", ok |-> FALSE, v |-> 0]

\* the decoder applied to the record; ok = FALSE is a panic
DecodeStep ==
    /\ dOut.tag = "none"
    /\ \E r \in DecodeOutcomes(dKind, dVer, dRec) :
         dOut' = [tag |-> "done", ok |-> r.ok, v |-> r.v]
    /\ UNCHANGED <<dKind, dVer, dRec>>
    /\ UNCHANGED <<bvars, fvars, cvars, lvars, rvars, kOp, kCode, kOut, vIn, vTriple, vOut, vTripleOut>>

NextDecode == DecodeStep

SpecDecode == InitDecode /\ [][NextDecode]_vars

\* ================================================================ properties

\* C1: when the populate query reports a topology_version different from the size
\* query's, build returns a torn-read error value (and does not panic).
C1_TornReadIsError ==
    (pc = "done" /\ q2ver # 0 /\ q2ver # version) => (res.tag = "Err" /\ res.err.kind = "TornRead")

\* C2: a successful build carries the version of both phases, and the returned collections
\* are together the decoding of one graph the device held at that single version.
C2_OkIsConsistent ==
    res.tag = "Ok" =>
        /\ res.topo.version = version
        /\ res.topo.version = q2ver
        /\ \E g \in hist[res.topo.version] :
              \A k \in Kinds : cfg[k] => res.topo[k] = <<DecodeAll(k, mver, g[k]).v>>

C2_Witness == res.tag = "Ok" /\ res.topo.version > 1 /\ cfg = Configure(Setters)

\* C3: a successful build returns None exactly for the kinds not requested and Some
\* for the requested ones, Some(empty) when the count is 0.
C3_OptionalFields ==
    res.tag = "Ok" =>
        \A k \in Kinds :
            /\ cfg[k] => Len(res.topo[k]) = 1
            /\ ~cfg[k] => res.topo[k] = <<>>

C3_Witness ==
    /\ res.tag = "Ok"
    /\ \E k \in Kinds : cfg[k] /\ res.topo[k] = <<<<>>>>
    /\ \E j \in Kinds : ~cfg[j]

\* C4: device with entities 10, 20, 30 and a builder asking only for pads and links:
\* entities and interfaces are None, pads and links are the device's.
DeviceEntityIds(g) == [i \in 1..Len(g.entities) |-> g.entities[i].id]

C4_PadsLinksScenario ==
    (res.tag = "Ok" /\ cfg = get_link(get_pad(BuilderNew))
       /\ \A g \in hist[res.topo.version] : DeviceEntityIds(g) = <<10, 20, 30>>) =>
        /\ res.topo.entities = <<>>
        /\ res.topo.interfaces = <<>>
        /\ \E g \in hist[res.topo.version] :
              /\ res.topo.pads = <<DecodeAll("pads", mver, g.pads).v>>
              /\ res.topo.links = <<DecodeAll("links", mver, g.links).v>>

C4_Witness ==
    res.tag = "Ok" /\ cfg = get_link(get_pad(BuilderNew))
      /\ \A g \in hist[res.topo.version] : DeviceEntityIds(g) = <<10, 20, 30>>

\* C5 (as stated): the first query has all pointers null and counts zero; in the populate
\* query an unrequested kind has a null pointer and a zero count, a requested kind a
\* zeroed buffer of the reported count.
C5_PopulateQueryShape ==
    (pc # "start" /\ q1ret = 0) =>
        /\ q1in = ZeroTopology
        /\ \A k \in Kinds :
             /\ ~cfg[k] => (~q2in.topo.ptr[k] /\ q2in.topo.num[k] = 0)
             /\ cfg[k] => (/\ q2in.topo.ptr[k]
                          /\ \A g \in hist[version] : Len(q2in.bufs[k]) = Len(g[k])
                          /\ \A i \in 1..Len(q2in.bufs[k]) : q2in.bufs[k][i] = ZeroRec[k])

\* C5 (amended): as above, but an unrequested kind keeps the count the first query
\* reported in its size field (its pointer is null, so the kernel does not write it).
C5_PopulateQueryShapeAmended ==
    (pc # "start" /\ q1ret = 0) =>
        /\ q1in = ZeroTopology
        /\ \A k \in Kinds :
             /\ ~cfg[k] => (~q2in.topo.ptr[k] /\ \A g \in hist[version] : q2in.topo.num[k] = Len(g[k]))
             /\ cfg[k] => (/\ q2in.topo.ptr[k]
                          /\ \A g \in hist[version] : Len(q2in.bufs[k]) = Len(g[k])
                          /\ \A i \in 1..Len(q2in.bufs[k]) : q2in.bufs[k][i] = ZeroRec[k])

C5_Witness ==
    /\ pc # "start" /\ q1ret = 0 /\ nq = 2
    /\ \E k \in Kinds : ~cfg[k] /\ \A g \in hist[version] : Len(g[k]) > 0
    /\ \E j \in Kinds : cfg[j] /\ \A g \in hist[version] : Len(g[j]) > 0

\* C6: the populate query follows a successful size query; a failed size query is
\* returned (classified) with no populate query; at most two queries, no retry.
C6_Sequencing ==
    /\ nq <= 2
    /\ nq = 2 => q1ret = 0
    /\ q1ret # 0 => (nq = 1 /\ pc = "done" /\ res = [tag |-> "Err", err |-> ioctl_error(q1ret)])

C6_Witness == q1ret # 0 /\ pc = "done"

\* C7: an undecodable populated record makes build return a decode error value,
\* never a panic and never a partial topology.
C7_DecodeErrorIsValue == ~(res.tag = "Panic" /\ res.why = "decode")

\* C8: the builder with all four options gives the topology MediaTopology::from_fd
\* gives on the same non-mutating device.
C8_BuilderMatchesFromFd ==
    (res.tag = "Ok" /\ res2.tag = "Ok" /\ cfg = Configure(Setters)) =>
        /\ res.topo.path = res2.topo.path
        /\ res.topo.version = res2.topo.version
        /\ \A k \in Kinds : res.topo[k] = <<res2.topo[k]>>

C8_Witness == res.tag = "Ok" /\ res2.tag = "Ok" /\ cfg = Configure(Setters) /\ devGraph = GraphA


\* C9: every run of the cursor on a fixed device yields strictly increasing ids and
\* ends with None (it never aborts).
C9_IncreasingAndEndsWithNone ==
    /\ cPc # "panic"
    /\ \A i \in 1..Len(cOut) - 1 : cOut[i] < cOut[i + 1]

\* C10: a lookup failure other than no-more-entities (EINVAL) is not
\* turned into end-of-sequence.
C10_OtherFailuresNotEnd ==
    (cLast = "Some" /\ cLook.ret \notin {0, EINVAL}) => cDesc # <<>>

\* C11: once next() has returned None it keeps returning None and issues no lookup; a run
\* that has ended (here: without transient lookup failures) has yielded exactly the
\* device's entities with id >= the starting id, each once, in ascending order.
CursorYieldedAll ==
    (cPc = "run" /\ cLast = "None" /\ ~cEnvFail) =>
        /\ {cOut[i] : i \in 1..Len(cOut)} = {e.id : e \in {f \in cEnts : f.id >= cStart}}
        /\ \A i \in 1..Len(cOut) - 1 : cOut[i] < cOut[i + 1]

C11_ForwardOnlyAndComplete ==
    /\ []CursorYieldedAll
    /\ [][cLast = "None" => (cLast' = "None" /\ cNlook' = 0 /\ cOut' = cOut)]_vars

\* C12: the descriptor fetch precedes the links enumeration; the attached buffers have the
\* descriptor's pad and link counts; a failed fetch issues no enumeration.
C12_FetchThenEnumerate ==
    /\ Len(lLog) <= 2
    /\ Len(lLog) >= 1 => lLog[1] = "ENUM_ENTITIES"
    /\ Len(lLog) = 2 =>
         /\ lLog[2] = "ENUM_LINKS"
         /\ lDesc # <<>>
         /\ lEnumIn = [pads |-> lDesc[1].pads, links |-> lDesc[1].links]
    /\ (lPc = "done" /\ lDesc = <<>>) => Len(lLog) = 1

C12_Witness == Len(lLog) = 2 /\ lEnumIn.pads = 2 /\ lEnumIn.links = 1

\* C13: when the entity's counts change between the fetch and the enumeration, enumerate
\* does not crash and leaves zeroed records out of the result.
C13_RaceDoesNotCrash ==
    (lPc = "done" /\ lMut > 0 /\ lDesc # <<>>) =>
        /\ lRes.tag # "Panic"
        /\ lRes.tag = "Ok" =>
             /\ \A i \in 1..Len(lRes.pads) : lRes.pads[i].entity # 0
             /\ \A i \in 1..Len(lRes.links) : lRes.links[i].source.entity # 0

\* C14: a queue call failing with EBUSY reports RequestIsAlreadyQueued (never DeviceIsBusy),
\* while EBUSY from a generic query is DeviceIsBusy.
C14_QueueBusyIsAlreadyQueued ==
    /\ (rLastOp = "queue" /\ rLastCode = EBUSY) => rLastErr.kind = "RequestIsAlreadyQueued"
    /\ ioctl_error(EBUSY).kind = "DeviceIsBusy"

\* C15: a failed queue maps ENOENT, ENOMEM, EINVAL, EIO and EBUSY to RequestNotContainBuffers,
\* OutOfMemory, RequestHasInvalidData, HardwareBadState and RequestIsAlreadyQueued, and
\* leaves the request's state unchanged.
QueueKindOf(code) ==
    CASE code = ENOENT -> "RequestNotContainBuffers"
      [] code = ENOMEM -> "OutOfMemory"
      [] code = EINVAL -> "RequestHasInvalidData"
      [] code = EIO -> "HardwareBadState"
      [] code = EBUSY -> "RequestIsAlreadyQueued"
      [] OTHER -> "Ioctl"

C15_QueueFailureMapping ==
    [][(rLastOp' = "queue" /\ rLastCode' # 0) =>
          /\ rLastErr'.kind = QueueKindOf(rLastCode')
          /\ rState' = rState]_vars

\* C16: an allocated request is Allocated, Queued or Completed; a successful queue starts in
\* Allocated or Completed and ends in Queued; a successful reinit starts in Allocated or
\* Completed and ends in Allocated; only external completion leaves Queued.
RequestStates == rState \in {"none", "Allocated", "Queued", "Completed"}

C16_Lifecycle ==
    /\ []RequestStates
    /\ [][/\ (rLastOp' = "queue" /\ rLastCode' = 0 /\ rQueues' # rQueues) =>
               rState \in {"Allocated", "Completed"} /\ rState' = "Queued"
          /\ (rLastOp' = "reinit" /\ rLastCode' = 0 /\ rQueues' # rQueues) =>
               rState \in {"Allocated", "Completed"} /\ rState' = "Allocated"
          /\ (rState = "Queued" /\ rState' # "Queued") => rLastOp' = "complete"]_vars

C16_Witness == rLastOp = "reinit" /\ rLastCode = 0 /\ rQueues >= 3

\* C17 (as stated): reinit of a Queued request fails with DeviceIsBusy and the request stays Queued;
\* DeviceIsBusy is the only error reinit returns.
C17_ReinitOnlyBusy ==
    /\ [](rLastOp = "reinit" /\ rLastCode # 0 => rLastErr.kind = "DeviceIsBusy")
    /\ [][(rLastOp' = "reinit" /\ rQueues' # rQueues /\ rState = "Queued") =>
             rLastErr'.kind = "DeviceIsBusy" /\ rState' = "Queued"]_vars

\* C17 (amended): reinit of a Queued request fails and leaves it Queued, and the kernel's
\* EBUSY is DeviceIsBusy; Request::init does not remap: a failure with raw code c is
\* ioctl_error(c) (ENOTTY NotSupportedIoctl, other codes Ioctl) and leaves the state as it was.
C17_ReinitAmended ==
    [][RequestInit =>
          /\ rLastCode' # 0 => (rState' = rState /\ rLastErr' = ioctl_error(rLastCode'))
          /\ rState = "Queued" => (rLastCode' # 0 /\ rState' = "Queued")
          /\ rLastCode' = EBUSY => rLastErr'.kind = "DeviceIsBusy"]_vars

C17_Witness == rLastOp = "reinit" /\ rState = "Queued" /\ rLastCode = EBUSY

\* C18 (as stated): a failed allocation is always a generic Ioctl error, whatever the code.
C18_AllocOnlyIoctl ==
    (rLastOp = "alloc" /\ rLastCode # 0) => rLastErr.kind = "Ioctl"

\* C18 (amended): a failed allocation is NotSupportedIoctl for ENOTTY, DeviceIsBusy for EBUSY
\* and a generic Ioctl error carrying the raw code for any other code; no request exists.
C18_AllocErrorAmended ==
    (rLastOp = "alloc" /\ rLastCode # 0) =>
        /\ rState = "none"
        /\ rLastErr.code = rLastCode
        /\ rLastErr.kind = CASE rLastCode = ENOTTY -> "NotSupportedIoctl"
                             [] rLastCode = EBUSY -> "DeviceIsBusy"
                             [] OTHER -> "Ioctl"

C18_Witness == rLastOp = "alloc" /\ rLastCode = ENOTTY

\* C19: classification gives exactly one failure kind of the closed set for every operation
\* and raw code; a code outside the operation's table gives the generic Ioctl error with
\* the raw code.
FailureKinds == {"DeviceIsBusy", "NotSupportedIoctl", "RequestIsAlreadyQueued",
                 "RequestNotContainBuffers", "OutOfMemory", "RequestHasInvalidData",
                 "HardwareBadState", "Ioctl"}

TableCodes(op) ==
    {EBUSY, ENOTTY} \cup (IF op = MEDIA_REQUEST_IOC_QUEUE THEN {ENOENT, ENOMEM, EINVAL, EIO} ELSE {})

C20_VersionRoundTrip ==
    /\ (vOut # -1 /\ vIn < 2^24) => vOut = vIn
    /\ vTripleOut # <<-1, -1, -1>> => vTripleOut = vTriple

C20_Witness ==
    /\ vOut # -1 /\ vIn > 65536 /\ vIn % 256 > 0 /\ vIn < 2^24
    /\ vTripleOut # <<-1, -1, -1>> /\ vTriple[2] > 0

\* C21: a decoded pad has an index iff MEDIA_V2_PAD_HAS_INDEX(media_version); a decoded entity
\* has flags iff MEDIA_V2_ENTITY_HAS_FLAGS(media_version), whatever the raw flags.
C21_VersionGatedFields ==
    (dOut.tag = "done" /\ dOut.ok) =>
        /\ dKind = "pad" => (dOut.v.index # <<>> <=> MEDIA_V2_PAD_HAS_INDEX(VersionInto(dVer)))
        /\ dKind = "entity" => (dOut.v.flags # <<>> <=> MEDIA_V2_ENTITY_HAS_FLAGS(VersionInto(dVer)))

\* C22: a link record of type DATA_LINK, INTERFACE_LINK or ANCILLARY_LINK (with known flag
\* bits) decodes to DataLink, InterfaceLink or AncillaryLink; any other type gives a decode
\* error value naming the raw flags, never a panic and never a dropped record.
C22_LinkTypeDecoding ==
    (dOut.tag = "done" /\ dKind = "link") =>
        LET ty == dRec.flags \div LinkTypeUnit
            known == dRec.flags % LinkTypeUnit \in 0..7
        IN /\ (ty = 0 /\ known) => dOut.ok /\ dOut.v.type = "DataLink"
           /\ (ty = 1 /\ known) => dOut.ok /\ dOut.v.type = "InterfaceLink"
           /\ (ty = 2 /\ known) => dOut.ok /\ dOut.v.type = "AncillaryLink"
           /\ ty \notin {0, 1, 2} => dOut.ok /\ dOut.v.kind = "LinkDecodeError" /\ dOut.v.from = dRec.flags

\* C23: a link descriptor of type DATA_LINK or ANCILLARY_LINK (with known flag bits) is
\* accepted; any other type gives a decode error value instead of an assertion panic.
C23_LinkDescTypes ==
    (dOut.tag = "done" /\ dKind = "linkdesc") =>
        LET ty == dRec.flags \div LinkTypeUnit
        IN /\ (ty \in {0, 2} /\ dRec.flags % LinkTypeUnit \in 0..7) => dOut.ok
           /\ ty \notin {0, 2} => dOut.ok /\ dOut.v.kind = "LinkDecodeError"

\* C24: MediaLinkFlags::try_from gives raw & !MEDIA_LNK_FL_LINK_TYPE when the
\* non-type bits are a combination of Enabled/Immutable/Dynamic, and otherwise an Err
\* (ok = FALSE) LinkFlagsParseError carrying the raw value.
LinkNonTypeBits(raw) == BitAnd(raw, LinkTypeUnit - 1)
LinkKnownBits(raw) == BitAnd(raw, LinkTypeUnit - 1 - 7) = 0

C24_LinkFlagsStated ==
    (dOut.tag = "done" /\ dKind = "linkflags") =>
        /\ LinkKnownBits(dRec.flags) => dOut.ok /\ dOut.v = LinkNonTypeBits(dRec.flags)
        /\ ~LinkKnownBits(dRec.flags) =>
             ~dOut.ok /\ dOut.v.kind = "LinkFlagsParseError" /\ dOut.v.from = dRec.flags

\* C25: pad and entity flags decode only exact recognised combinations; any other raw value
\* (SINK and SOURCE both set, unknown extra bits) is an Err FlagsParseError naming the value.
C25_FlagsNotLossy ==
    (dOut.tag = "done") =>
        /\ dKind = "padflags" =>
             IF dRec.flags \in {1, 2, 1 + 4, 2 + 4} THEN dOut.ok
             ELSE ~dOut.ok /\ dOut.v.kind = "PadFlagsParseError" /\ dOut.v.from = dRec.flags
        /\ dKind = "entflags" =>
             IF dRec.flags \in {1, 2} THEN dOut.ok
             ELSE ~dOut.ok /\ dOut.v.kind = "EntityFlagsParseError" /\ dOut.v.from = dRec.flags

\* C26: decoding a fixed-size name buffer never fails; it gives the bytes before the first
\* NUL (the whole buffer without a NUL), decoded lossily, and reads nothing past the buffer.
RECURSIVE UntilNul(_)
UntilNul(b) == IF b = <<>> \/ b[1] = 0 THEN <<>> ELSE <<b[1]>> \o UntilNul(Tail(b))

C26_NameDecoding ==
    (dOut.tag = "done") =>
        /\ (dKind = "entity" /\ dRec.function = MEDIA_ENT_F_IO_V4L) =>
             dOut.ok /\ dOut.v.name = ToStringLossy(UntilNul(dRec.name))
        /\ dKind = "descname" => dOut.ok /\ dOut.v = ToStringLossy(UntilNul(dRec.name))

\* C27: interface decoding reads the type first; an unrecognised intf_type is an
\* InterfaceTypeParseError value naming the raw type (not a panic), and a recognised one
\* gives the interface with its devnode.
C27_InterfaceDecoding ==
    (dOut.tag = "done" /\ dKind = "intf") =>
        IF dRec.intf_type \in {MEDIA_INTF_T_DVB_FE, MEDIA_INTF_T_V4L_VIDEO}
        THEN dOut.ok /\ dOut.v.devnode = <<dRec.major, dRec.minor>>
        ELSE dOut.ok /\ dOut.v.kind = "InterfaceTypeParseError" /\ dOut.v.from = dRec.intf_type

\* C28: on a device that does not change, a successful build's result carries the
\* topology_version the first (size-discovery) query returned.
C28_ResultVersion ==
    (res.tag = "Ok") => (res.topo.version = version /\ version = devVer)

C28_Witness == res.tag = "Ok" /\ res.topo.version # 0 /\ cfg.entities

\* C29: two chains of get_* calls on MediaTopologyBuilder::new() with the same set of methods
\* give equal builders (hence the same build on a fixed device), the builder of that set.
C29_ConfigOrderFree ==
    (dOut.tag = "done" /\ dKind = "builder" /\ SetOf(dRec.s1) = SetOf(dRec.s2)) =>
        /\ dOut.v.b1 = dOut.v.b2
        /\ \A k \in Kinds : dOut.v.b1[k] = (\E i \in 1..Len(dRec.s1) :
                 dRec.s1[i] = CASE k = "entities" -> "get_entity" [] k = "interfaces" -> "get_interface"
                                [] k = "links" -> "get_link" [] k = "pads" -> "get_pad")

C29_Witness ==
    /\ dOut.tag = "done" /\ dKind = "builder"
    /\ Len(dRec.s1) = 2 /\ Len(dRec.s2) = 3 /\ dRec.s1[1] # dRec.s2[1]

\* C30: every MediaPadFlags value decodes from the u32 it encodes to as itself.
C30_PadFlagsRoundTrip ==
    (dOut.tag = "done" /\ dKind = "padrt") => dOut.ok /\ dOut.v = dRec.f

C30_Witness == dOut.tag = "done" /\ dKind = "padrt" /\ dRec.f = "SinkMustConnect"
====
